---- MODULE Spec2Model ----
(***************************************************************************)
(* A model of lang-analyzer (src/lang-analyzer/analyzer.py): one run reads *)
(* the newest dump and the new input file, analyses the lines that are new,*)
(* and writes a log and a dump named after the wall-clock second.          *)
(*                                                                         *)
(* A line is a sequence of one-character strings.  A file's text is a      *)
(* sequence of characters too, so that writing (line + "\n") and reading   *)
(* (readlines, strip) are modelled by what they do.                        *)
(***************************************************************************)
EXTENDS Integers, Sequences, FiniteSets, TLC

VARIABLES
    \* ---- the file system and the clock ----
    input,            \* the new input file: [exists, content]
    dumps,            \* dump_dir: timestamp -> [exists, content, mtime]
    logs,             \* log_dir:  timestamp -> [exists, content]
    clock,            \* wall-clock time in whole seconds (datetime.now())
    \* ---- one run of main() / analyze_file ----
    pc,               \* where the run is
    runs,             \* runs started so far
    old_file_path,    \* timestamp of the dump found, or None
    old_lines,        \* set read from the old dump
    new_lines,        \* set read from the new input file
    new_failed,       \* read_file(new_file_path) took an except branch
    diff_order,       \* iteration order of the set new_lines - old_lines
    new_order,        \* iteration order of the set new_lines
    analysis_results, \* what _process_lines returned
    timestamp,        \* the timestamp _write_logs formatted
    log_data,         \* what _format_log_data returned
    log_pos,          \* lines of log_data written by write_file(log, ...)
    dump_pos,         \* lines of new_lines written by write_file(dump, ...)
    prev_snapshot,    \* history: new_lines of the run completed before this one
    prev_timestamp,   \* history: that run's timestamp, or None
    mtime_tie,        \* history: find_latest_file met several dumps of the latest mtime
    \* ---- _process_lines applied to a drawn set of lines ----
    st_pc, st_order, st_result,
    \* ---- a dump written and read back ----
    rt_pc, rt_text, rt_lines, rt_order, rt_dump, rt_back

run_vars == <<pc, runs, old_file_path, old_lines, new_lines, new_failed,
              diff_order, new_order, analysis_results, timestamp, log_data,
              log_pos, dump_pos, prev_snapshot, prev_timestamp, mtime_tie>>
fs_vars  == <<input, dumps, logs, clock>>
st_vars  == <<st_pc, st_order, st_result>>
rt_vars  == <<rt_pc, rt_text, rt_lines, rt_order, rt_dump, rt_back>>
vars     == <<fs_vars, run_vars, st_vars, rt_vars>>

(***************************************************************************)
(* Bounds of the model.                                                    *)
(***************************************************************************)
MaxRuns == 3        \* runs of main() in one behaviour
MaxClock == 1       \* the clock counts seconds 0..MaxClock
MaxLines == 4       \* lines in a set handed to _process_lines
MaxTextLen == 5     \* characters of a text whose lines are written and read back

(***************************************************************************)
(* Text: str.strip, str.split(sep, 1), str.startswith, file.readlines.     *)
(***************************************************************************)
NL == "\n"
CR == "\r"
\* A character is a string: itself where a TLA+ string can hold it (ASCII
\* and U+0085, U+00A0), the name of its code point otherwise ("U+3000").
\* Whitespace is the 29 characters str.isspace() holds of, which str.strip()
\* removes: \t \n \v \f \r, \x1c-\x1f, space, U+0085, U+00A0, U+1680,
\* U+2000-U+200A, U+2028, U+2029, U+202F, U+205F, U+3000.
Whitespace ==
    { " ", "\t", NL, "", "\f", CR, "", "", "", "",
      "", " ",
      "U+1680", "U+2000", "U+2001", "U+2002", "U+2003", "U+2004",
      "U+2005", "U+2006", "U+2007", "U+2008", "U+2009", "U+200A",
      "U+2028", "U+2029", "U+202F", "U+205F", "U+3000" }

Range(s) == {s[i] : i \in 1..Len(s)}

RECURSIVE lstrip(_)
lstrip(s) ==
    IF s # <<>> /\ Head(s) \in Whitespace THEN lstrip(Tail(s)) ELSE s

RECURSIVE rstrip(_)
rstrip(s) ==
    IF s # <<>> /\ s[Len(s)] \in Whitespace
    THEN rstrip(SubSeq(s, 1, Len(s) - 1)) ELSE s

strip(s) == rstrip(lstrip(s))

\* str.find for a one-character needle, 1-based; 0 when absent
find(s, c) ==
    IF \E i \in 1..Len(s) : s[i] = c
    THEN CHOOSE i \in 1..Len(s) : s[i] = c /\ \A j \in 1..(i - 1) : s[j] # c
    ELSE 0

\* s.split(sep, 1): one part when sep is absent, else the text before the
\* first sep and the text after it
split(s, sep) ==
    LET i == find(s, sep)
    IN  IF i = 0 THEN <<s>>
        ELSE <<SubSeq(s, 1, i - 1), SubSeq(s, i + 1, Len(s))>>

startswith(s, p) == Len(s) >= Len(p) /\ SubSeq(s, 1, Len(p)) = p

\* open(..., 'r') with newline=None: "\r\n" and a lone "\r" are read as "\n"
RECURSIVE universal_newlines(_)
universal_newlines(text) ==
    IF text = <<>> THEN <<>>
    ELSE IF Head(text) = CR
         THEN IF Len(text) > 1 /\ text[2] = NL
              THEN <<NL>> \o universal_newlines(SubSeq(text, 3, Len(text)))
              ELSE <<NL>> \o universal_newlines(Tail(text))
         ELSE <<Head(text)>> \o universal_newlines(Tail(text))

\* the decoded text cut after every "\n", terminators kept
RECURSIVE cut_lines(_)
cut_lines(text) ==
    LET i == find(text, NL)
    IN  IF text = <<>> THEN <<>>
        ELSE IF i = 0 THEN <<text>>
        ELSE <<SubSeq(text, 1, i)>> \o cut_lines(SubSeq(text, i + 1, Len(text)))

\* f.readlines() on the characters stored in the file
readlines(text) == cut_lines(universal_newlines(text))

\* LangAnalyzer.read_file: a missing or unreadable file gives the empty set
read_file(file) ==
    IF file.exists
    THEN {strip(readlines(file.content)[i]) : i \in 1..Len(readlines(file.content))}
    ELSE {}

\* read_file printed "Error: ..." (an except branch was taken)
read_error(file) == ~file.exists

\* file.write(line): the '\n' left out
write_bare(content, line) == content \o line

\* one call of file.write(line + '\n') inside write_file; the file is opened
\* with newline=None where os.linesep is "\n", so "\n" is stored as it is
write_line(content, line) == content \o line \o <<NL>>

\* every iteration order a set can have: the sequences that list it once
Orders(S) ==
    {o \in [1..Cardinality(S) -> S] : \A i, j \in 1..Cardinality(S) : o[i] = o[j] => i = j}

(***************************************************************************)
(* LangAnalyzer._process_lines.  prefix_counts is a dict: a sequence of    *)
(* [prefix, count] in insertion order, one entry per key.                  *)
(***************************************************************************)
ITEM_DOT == <<"i", "t", "e", "m", ".">>

has_key(d, k) == \E i \in 1..Len(d) : d[i].prefix = k

\* prefix_counts[prefix] = 1: the count set, not added to
incr_reset(d, k) ==
    IF \E i \in 1..Len(d) : d[i].prefix = k
    THEN [i \in 1..Len(d) |->
            IF d[i].prefix = k THEN [prefix |-> k, count |-> 1] ELSE d[i]]
    ELSE Append(d, [prefix |-> k, count |-> 1])

\* prefix_counts[prefix] += 1 on a defaultdict(int)
incr(d, k) ==
    IF has_key(d, k)
    THEN [i \in 1..Len(d) |->
            IF d[i].prefix = k THEN [prefix |-> k, count |-> d[i].count + 1] ELSE d[i]]
    ELSE Append(d, [prefix |-> k, count |-> 1])

\* the body of "for line in lines" (lines 42-54)
process_line(acc, line) ==
    LET parts == split(line, ".")
    IN  IF Len(parts) > 1
        THEN LET prefix == parts[1]
                 value == parts[2]
                 value_parts == split(value, "=")
             IN  [prefix_counts |-> incr(acc.prefix_counts, prefix),
                  unique_prefixes |-> acc.unique_prefixes \cup {prefix},
                  empty_value_count |->
                      IF Len(value_parts) > 1 /\ strip(value_parts[2]) = <<>>
                      THEN acc.empty_value_count + 1
                      ELSE acc.empty_value_count,
                  item_values |->
                      IF startswith(line, ITEM_DOT)
                      THEN IF Len(value_parts) > 1
                           THEN Append(acc.item_values, strip(value_parts[2]))
                           ELSE acc.item_values   \* IndexError, caught: pass
                      ELSE acc.item_values]
        ELSE acc

RECURSIVE process_loop(_, _)
process_loop(acc, order) ==
    IF order = <<>> THEN acc
    ELSE process_loop(process_line(acc, Head(order)), Tail(order))

\* where sorted() puts one more item: behind every item whose count is not smaller
RECURSIVE insert_desc(_, _)
insert_desc(s, e) ==
    IF s = <<>> THEN <<e>>
    ELSE IF Head(s).count >= e.count THEN <<Head(s)>> \o insert_desc(Tail(s), e)
    ELSE <<e>> \o s

\* sorted(items, key=count): ascending, the reverse=True forgotten
RECURSIVE insert_asc(_, _)
insert_asc(s, e) ==
    IF s = <<>> THEN <<e>>
    ELSE IF Head(s).count <= e.count THEN <<Head(s)>> \o insert_asc(Tail(s), e)
    ELSE <<e>> \o s

RECURSIVE sorted_asc(_)
sorted_asc(items) ==
    IF items = <<>> THEN <<>>
    ELSE insert_asc(sorted_asc(SubSeq(items, 1, Len(items) - 1)), items[Len(items)])

\* sorted(prefix_counts.items(), key=lambda item: item[1], reverse=True):
\* a stable sort by descending count
RECURSIVE sorted_desc(_)
sorted_desc(items) ==
    IF items = <<>> THEN <<>>
    ELSE insert_desc(sorted_desc(SubSeq(items, 1, Len(items) - 1)), items[Len(items)])

RECURSIVE sum_len(_)
sum_len(order) == IF order = <<>> THEN 0 ELSE Len(Head(order)) + sum_len(Tail(order))

max_len(d) ==
    IF d = <<>> THEN 0
    ELSE CHOOSE n \in {Len(d[i].prefix) : i \in 1..Len(d)} :
             \A i \in 1..Len(d) : Len(d[i].prefix) <= n

EmptyAcc ==
    [prefix_counts |-> <<>>, unique_prefixes |-> {}, empty_value_count |-> 0,
     item_values |-> <<>>]

\* order lists the set `lines` in the order the for loop meets its elements
_process_lines(order) ==
    LET acc == process_loop(EmptyAcc, order)
        prefix_counts == sorted_desc(acc.prefix_counts)
    IN  [prefix_counts |-> prefix_counts,
         empty_value_count |-> acc.empty_value_count,
         total_length |-> sum_len(order),
         unique_prefixes |-> Cardinality(acc.unique_prefixes),
         item_values |-> acc.item_values,
         max_prefix_len |-> max_len(prefix_counts),
         new_lines_count |-> Len(order)]

NoResults == _process_lines(<<>>)

(***************************************************************************)
(* The file system a run works on.                                         *)
(***************************************************************************)
None == -1                       \* Python's None, for a path or a timestamp
Times == 0..MaxClock             \* the timestamps a file name can carry

NoDump == [exists |-> FALSE, content |-> <<>>, mtime |-> 0]
NoLog  == [exists |-> FALSE, content |-> <<>>]

\* the lines the input file of a run is made of
LineA == <<"a", ".", "=">>
LineB == <<"b">>

TextFile(text) == [exists |-> TRUE, content |-> text]
MissingFile == [exists |-> FALSE, content |-> <<>>]

\* the states of the new input file: missing (or unreadable), empty,
\* "\ta.=<U+00A0>\r\nb\r" (white space of ASCII and beyond, both other
\* line ends), " b\nb" (a repeated line, no final newline)
InputFiles ==
    { MissingFile,
      TextFile(<<>>),
      TextFile(<<"\t">> \o LineA \o <<" ", CR, NL>> \o LineB \o <<CR>>),
      TextFile(<<" ">> \o LineB \o <<NL>> \o LineB) }

\* the dumps of the directory
Files(dir) == {t \in DOMAIN dir : dir[t].exists}

\* the dumps whose st_mtime no other dump exceeds
Newest(dir) == {t \in Files(dir) : \A u \in Files(dir) : dir[u].mtime <= dir[t].mtime}

\* min(files, key=mtime): the files modified first
find_oldest_file(dir) ==
    IF Files(dir) # {}
    THEN {t \in Files(dir) : \A u \in Files(dir) : dir[t].mtime <= dir[u].mtime}
    ELSE {None}

\* find_latest_file(dump_dir, "ru_lang_*.txt"): what it can return.  max()
\* keeps the first of several files of the latest mtime, in the order glob
\* lists them, which is the directory's: any of them.
find_latest_file(dir) == IF Files(dir) # {} THEN Newest(dir) ELSE {None}

\* the st_mtime a write can leave on dump t.  Only the order of the mtimes is
\* kept: the file-system clock does not run backwards, so the file is no
\* older than it was and than any other dump; whether it is newer than the
\* newest of them or of the same mtime is the resolution of that clock.
mtimes(dir, t) ==
    LET others == {dir[u].mtime : u \in Files(dir) \ {t}}
        top == IF others = {} THEN 0
               ELSE CHOOSE m \in others : \A n \in others : n <= m
        own == IF dir[t].exists THEN dir[t].mtime ELSE 0
    IN  {m \in {top, top + 1, own} : m >= own /\ m >= top /\ m >= 1}

\* old_lines - new_lines: the operands exchanged
DiffSwapped(new, old) == old \ new

\* new_lines - old_lines, the argument of _process_lines (line 74)
Diff(new, old) == new \ old

(***************************************************************************)
(* LangAnalyzer._format_log_data.  A log line is [tag, num, text]: the     *)
(* literal text of the f-string, the number or path formatted into it, and *)
(* the characters formatted into it.  A listed line and the "" before the  *)
(* listing are both lines of text only (tag "").                           *)
(***************************************************************************)
Entry(tag, num, text) == [tag |-> tag, num |-> num, text |-> text]

\* f"{prefix: <{width}}": padded with spaces on the right
ljust(s, width) == s \o [i \in 1..(width - Len(s)) |-> " "]

NEW_LINES_HEADER == "\nNew lines:"
TOTAL_NEW_LINES == "Total number of new lines"

_format_log_data(results, lines_order, old_path, now) ==
    <<Entry("Analysis time", now, <<>>),
      Entry("New file", 0, <<>>),
      Entry("Comparison file", old_path, <<>>),
      Entry(TOTAL_NEW_LINES, results.new_lines_count, <<>>),
      Entry("Number of lines with empty values", results.empty_value_count, <<>>),
      Entry("Total length of new lines", results.total_length, <<>>),
      Entry("Number of unique prefixes", results.unique_prefixes, <<>>),
      Entry("\nPrefix statistics:", 0, <<>>)>>
    \o [i \in 1..Len(results.prefix_counts) |->
          Entry(":", results.prefix_counts[i].count,
                ljust(results.prefix_counts[i].prefix, results.max_prefix_len))]
    \o <<Entry(NEW_LINES_HEADER, 0, <<>>), Entry("", 0, <<>>)>>
    \o [i \in 1..Len(lines_order) |-> Entry("", 0, lines_order[i])]

(***************************************************************************)
(* One run: main() -> analyze_file -> _write_logs.                         *)
(***************************************************************************)
RunInit ==
    /\ pc = "idle" /\ runs = 0
    /\ old_file_path = None /\ old_lines = {} /\ new_lines = {}
    /\ new_failed = FALSE
    /\ diff_order = <<>> /\ new_order = <<>>
    /\ analysis_results = NoResults
    /\ timestamp = None /\ log_data = <<>>
    /\ log_pos = 0 /\ dump_pos = 0
    /\ prev_snapshot = {} /\ prev_timestamp = None /\ mtime_tie = FALSE

FsInit ==
    /\ input \in InputFiles
    /\ dumps = [t \in Times |-> NoDump]
    /\ logs = [t \in Times |-> NoLog]
    /\ clock = 0

StIdle == st_pc = "off" /\ st_order = <<>> /\ st_result = NoResults
RtIdle ==
    /\ rt_pc = "off" /\ rt_text = <<>> /\ rt_lines = {} /\ rt_order = <<>>
    /\ rt_dump = MissingFile /\ rt_back = {}

Init == FsInit /\ RunInit /\ StIdle /\ RtIdle

\* the environment replaces, empties or removes the input file between runs
SetInput ==
    /\ pc \in {"idle", "done"}
    /\ input' \in InputFiles \ {input}
    /\ UNCHANGED <<dumps, logs, clock, run_vars, st_vars, rt_vars>>

\* a second passes
Tick ==
    /\ clock < MaxClock
    /\ clock' = clock + 1
    /\ UNCHANGED <<input, dumps, logs, run_vars, st_vars, rt_vars>>

\* line 70: a fresh process starts and looks for the latest dump
StartRun ==
    /\ pc \in {"idle", "done"}
    /\ runs < MaxRuns
    /\ runs' = runs + 1
    /\ old_file_path' \in find_latest_file(dumps)
    /\ mtime_tie' = (Cardinality(Newest(dumps)) > 1)
    /\ old_lines' = {} /\ new_lines' = {} /\ new_failed' = FALSE
    /\ diff_order' = <<>> /\ new_order' = <<>>
    /\ analysis_results' = NoResults
    /\ timestamp' = None /\ log_data' = <<>>
    /\ log_pos' = 0 /\ dump_pos' = 0
    /\ prev_snapshot' = IF pc = "done" THEN new_lines ELSE prev_snapshot
    /\ prev_timestamp' = IF pc = "done" THEN timestamp ELSE prev_timestamp
    /\ pc' = "read_old"
    /\ UNCHANGED <<fs_vars, st_vars, rt_vars>>

\* line 71
ReadOld ==
    /\ pc = "read_old"
    /\ old_lines' = IF old_file_path # None
                    THEN read_file(dumps[old_file_path]) ELSE {}
    /\ pc' = "read_new"
    /\ UNCHANGED <<runs, old_file_path, new_lines, new_failed, diff_order,
                   new_order, analysis_results, timestamp, log_data, log_pos,
                   dump_pos, prev_snapshot, prev_timestamp, mtime_tie, input,
                   dumps, logs, clock, st_vars, rt_vars>>

\* line 72
ReadNew ==
    /\ pc = "read_new"
    /\ new_lines' = read_file(input)
    /\ new_failed' = read_error(input)
    /\ pc' = "analyze"
    /\ UNCHANGED <<runs, old_file_path, old_lines, diff_order, new_order,
                   analysis_results, timestamp, log_data, log_pos, dump_pos,
                   prev_snapshot, prev_timestamp, mtime_tie, input, dumps,
                   logs, clock, st_vars, rt_vars>>

\* line 74
Analyze ==
    /\ pc = "analyze"
    /\ \E o \in Orders(Diff(new_lines, old_lines)) :
          /\ diff_order' = o
          /\ analysis_results' = _process_lines(o)
    /\ pc' = "write_logs"
    /\ UNCHANGED <<runs, old_file_path, old_lines, new_lines, new_failed,
                   new_order, timestamp, log_data, log_pos, dump_pos,
                   prev_snapshot, prev_timestamp, mtime_tie, input, dumps,
                   logs, clock, st_vars, rt_vars>>

\* lines 79-81: datetime.now() formatted to the second names both files
TakeTimestamp ==
    /\ pc = "write_logs"
    /\ timestamp' = clock
    /\ pc' = "format"
    /\ UNCHANGED <<runs, old_file_path, old_lines, new_lines, new_failed,
                   diff_order, new_order, analysis_results, log_data,
                   log_pos, dump_pos, prev_snapshot, prev_timestamp,
                   mtime_tie, input, dumps, logs, clock, st_vars, rt_vars>>

\* lines 83-84: the log body; line 100 reads datetime.now() again, and
\* line 111 iterates new_lines
FormatLog ==
    /\ pc = "format"
    /\ \E o \in Orders(new_lines) :
          /\ new_order' = o
          /\ log_data' = _format_log_data(analysis_results, o, old_file_path, clock)
    /\ pc' = "open_log"
    /\ UNCHANGED <<runs, old_file_path, old_lines, new_lines, new_failed,
                   diff_order, analysis_results, timestamp, log_pos,
                   dump_pos, prev_snapshot, prev_timestamp, mtime_tie, input,
                   dumps, logs, clock, st_vars, rt_vars>>

\* line 87: aiofiles.open(log_file_path, 'w') creates the log, or truncates
\* the log of that name
OpenLog ==
    /\ pc = "open_log"
    /\ logs' = [logs EXCEPT ![timestamp] = [exists |-> TRUE, content |-> <<>>]]
    /\ pc' = "open_dump"
    /\ UNCHANGED <<runs, old_file_path, old_lines, new_lines, new_failed,
                   diff_order, new_order, analysis_results, timestamp,
                   log_data, log_pos, dump_pos, prev_snapshot,
                   prev_timestamp, mtime_tie, input, dumps, clock, st_vars,
                   rt_vars>>

\* line 88: aiofiles.open(dump_file_path, 'w'), the same for the dump
OpenDump ==
    /\ pc = "open_dump"
    /\ \E m \in mtimes(dumps, timestamp) :
          dumps' = [dumps EXCEPT ![timestamp] =
                       [exists |-> TRUE, content |-> <<>>, mtime |-> m]]
    /\ pc' = "writing"
    /\ UNCHANGED <<runs, old_file_path, old_lines, new_lines, new_failed,
                   diff_order, new_order, analysis_results, timestamp,
                   log_data, log_pos, dump_pos, prev_snapshot,
                   prev_timestamp, mtime_tie, input, logs, clock, st_vars,
                   rt_vars>>

\* lines 90-92, write_file(log, log_data): one await file.write per step
WriteLog ==
    /\ pc = "writing"
    /\ log_pos < Len(log_data)
    /\ logs' = [logs EXCEPT ![timestamp].content = Append(@, log_data[log_pos + 1])]
    /\ log_pos' = log_pos + 1
    /\ UNCHANGED <<pc, runs, old_file_path, old_lines, new_lines, new_failed,
                   diff_order, new_order, analysis_results, timestamp,
                   log_data, dump_pos, prev_snapshot, prev_timestamp,
                   mtime_tie, input, dumps, clock, st_vars, rt_vars>>

\* lines 90-92, write_file(dump, new_lines)
WriteDump ==
    /\ pc = "writing"
    /\ dump_pos < Len(new_order)
    /\ \E m \in mtimes(dumps, timestamp) :
          dumps' = [dumps EXCEPT ![timestamp] =
                       [exists |-> TRUE,
                        content |-> write_line(@.content, new_order[dump_pos + 1]),
                        mtime |-> m]]
    /\ dump_pos' = dump_pos + 1
    /\ UNCHANGED <<pc, runs, old_file_path, old_lines, new_lines, new_failed,
                   diff_order, new_order, analysis_results, timestamp,
                   log_data, log_pos, prev_snapshot, prev_timestamp,
                   mtime_tie, input, logs, clock, st_vars, rt_vars>>

\* only the log task awaited
gathered_log(lpos, ldata, dpos, dlines) == lpos = Len(ldata)

\* asyncio.gather(...) returned: it waits for both write_file tasks
gathered(lpos, ldata, dpos, dlines) == lpos = Len(ldata) /\ dpos = Len(dlines)

\* line 95: "Files written successfully!"
Finish ==
    /\ pc = "writing"
    /\ gathered(log_pos, log_data, dump_pos, new_order)
    /\ pc' = "done"
    /\ UNCHANGED <<runs, old_file_path, old_lines, new_lines, new_failed,
                   diff_order, new_order, analysis_results, timestamp,
                   log_data, log_pos, dump_pos, prev_snapshot,
                   prev_timestamp, mtime_tie, input, dumps, logs, clock,
                   st_vars, rt_vars>>

Next ==
    \/ SetInput \/ Tick \/ StartRun \/ ReadOld \/ ReadNew \/ Analyze
    \/ TakeTimestamp \/ FormatLog \/ OpenLog \/ OpenDump
    \/ WriteLog \/ WriteDump \/ Finish

Spec == Init /\ [][Next]_vars

(***************************************************************************)
(* _process_lines on its own: any set of at most MaxLines lines of         *)
(* StatLines, met by the for loop in any order.                            *)
(***************************************************************************)
StatLines ==
    { <<>>,                                         \* ""
      <<".">>,                                      \* "."
      <<"a", ".", "b">>,                            \* "a.b"
      <<"a", ".", "=">>,                            \* "a.="
      <<"a", ".", "b", "=", "U+3000", "\t">>,       \* "a.b=<U+3000>\t"
      <<"b", ".", "=", "c">>,                       \* "b.=c"
      <<"a", "=">>,                                 \* "a="
      <<"a", "=", ".", "b">>,                       \* "a=.b"
      <<"i", "t", "e", "m">>,                       \* "item"
      <<"i", "t", "e", "m", ".", "=">>,             \* "item.="
      <<"i", "t", "e", "m", ".", "a">>,             \* "item.a"
      <<"i", "t", "e", "m", ".", "a", "=", "\t", "b", "U+2028">>,  \* "item.a=\tb<U+2028>"
      <<"i", "t", "e", "m", "s", ".", "a", "=", "b">> } \* "items.a=b"

Injective(o) == \A i, j \in DOMAIN o : o[i] = o[j] => i = j

StInit ==
    /\ st_pc = "start"
    /\ st_order \in {o \in UNION {[1..n -> StatLines] : n \in 0..MaxLines} : Injective(o)}
    /\ st_result = NoResults
    /\ input = MissingFile
    /\ dumps = [t \in Times |-> NoDump]
    /\ logs = [t \in Times |-> NoLog]
    /\ clock = 0
    /\ RunInit /\ RtIdle

StProcess ==
    /\ st_pc = "start"
    /\ st_result' = _process_lines(st_order)
    /\ st_pc' = "done"
    /\ UNCHANGED <<st_order, fs_vars, run_vars, rt_vars>>

StNext == StProcess

SpecStats == StInit /\ [][StNext]_vars

(***************************************************************************)
(* A dump written and read back: read_file on a text gives a set of lines, *)
(* write_file writes it as a dump, read_file reads the dump.               *)
(***************************************************************************)
RtAlphabet == {"a", " ", "\t", NL, CR, " "}

RtInit ==
    /\ rt_pc = "start"
    /\ rt_text \in UNION {[1..n -> RtAlphabet] : n \in 0..MaxTextLen}
    /\ rt_lines = {} /\ rt_order = <<>>
    /\ rt_dump = MissingFile /\ rt_back = {}
    /\ input = MissingFile
    /\ dumps = [t \in Times |-> NoDump]
    /\ logs = [t \in Times |-> NoLog]
    /\ clock = 0
    /\ RunInit /\ StIdle

\* read_file(text), then aiofiles.open(dump_file_path, 'w')
RtRead ==
    /\ rt_pc = "start"
    /\ rt_lines' = read_file(TextFile(rt_text))
    /\ rt_order' \in Orders(read_file(TextFile(rt_text)))
    /\ rt_dump' = TextFile(<<>>)
    /\ rt_pc' = "writing"
    /\ UNCHANGED <<rt_text, rt_back, fs_vars, run_vars, st_vars>>

\* write_file(dump, new_lines): the next line of the iteration
RtWrite ==
    /\ rt_pc = "writing"
    /\ rt_order # <<>>
    /\ rt_dump' = TextFile(write_line(rt_dump.content, Head(rt_order)))
    /\ rt_order' = Tail(rt_order)
    /\ UNCHANGED <<rt_pc, rt_text, rt_lines, rt_back, fs_vars, run_vars, st_vars>>

\* the dump is closed and read_file reads it
RtReadBack ==
    /\ rt_pc = "writing"
    /\ rt_order = <<>>
    /\ rt_back' = read_file(rt_dump)
    /\ rt_pc' = "done"
    /\ UNCHANGED <<rt_text, rt_lines, rt_order, rt_dump, fs_vars, run_vars, st_vars>>

RtNext == RtRead \/ RtWrite \/ RtReadBack

SpecRT == RtInit /\ [][RtNext]_vars

(***************************************************************************)
(* Properties.                                                             *)
(***************************************************************************)
Analyzed == pc \in {"write_logs", "format", "open_log", "open_dump", "writing", "done"}

HasDot(line) == find(line, ".") # 0
HasEq(line) == find(line, "=") # 0

RECURSIVE SumCounts(_)
SumCounts(d) == IF d = <<>> THEN 0 ELSE Head(d).count + SumCounts(Tail(d))

\* C1: the set handed to _process_lines is new_lines - old_lines; identical
\* snapshots give new_lines_count = 0 and no prefix counts; with no previous
\* snapshot (or an empty one) the run goes on and analyses all of new_lines.
C1_AnalyzesNewMinusOld ==
    Analyzed =>
        /\ Range(diff_order) = new_lines \ old_lines
        /\ analysis_results.new_lines_count = Cardinality(new_lines \ old_lines)
        /\ (new_lines = old_lines =>
               /\ analysis_results.new_lines_count = 0
               /\ analysis_results.prefix_counts = <<>>)
        /\ (old_file_path = None \/ old_lines = {} =>
               Range(diff_order) = new_lines)

\* a run whose input equals the previous dump, line for line
C1_Witness ==
    /\ Analyzed
    /\ old_file_path # None
    /\ new_lines = old_lines
    /\ new_lines # {}

\* C2: a run that could not read the new input file creates and writes no
\* log file and no dump file.
C2_NoOutputWhenNewFileUnreadable ==
    [][new_failed => (dumps' = dumps /\ logs' = logs)]_vars

\* C3: no step truncates or rewrites a dump or a log that exists, except the
\* writes of the run that created it.
C3_NeverOverwritten ==
    [][\A t \in Times :
          /\ (dumps[t].exists => dumps'[t] = dumps[t])
                \/ (pc = "writing" /\ timestamp = t)
          /\ (logs[t].exists => logs'[t] = logs[t])
                \/ (pc \in {"open_dump", "writing"} /\ timestamp = t)]_vars

\* the lines a finished log lists after its "New lines:" line and the ""
\* that follows it
Listed(log) ==
    LET h == CHOOSE i \in 1..Len(log) : log[i].tag = NEW_LINES_HEADER
    IN  {log[i].text : i \in (h + 2)..Len(log)}

Reported(log) ==
    LET k == CHOOSE i \in 1..Len(log) : log[i].tag = TOTAL_NEW_LINES
    IN  log[k].num

\* C4: the lines a run's log lists after "New lines:" are the lines of
\* new - old, as many as the log reports as "Total number of new lines".
C4_LogListsNewMinusOld ==
    pc = "done" =>
        /\ Listed(logs[timestamp].content) = new_lines \ old_lines
        /\ Cardinality(Listed(logs[timestamp].content)) = Reported(logs[timestamp].content)

\* C5: a set of lines read by read_file, written as a dump and read back by
\* read_file is the same set.
C5_RoundTrip == rt_pc = "done" => rt_back = rt_lines

\* a set with the empty line and another line went through the dump
C5_Witness ==
    /\ rt_pc = "done"
    /\ <<>> \in rt_lines
    /\ Cardinality(rt_lines) >= 2

\* C6: the prefix counts sum to the number of lines with a '.', which is at
\* most new_lines_count, and equal to it exactly when every line has a '.'.
C6_PrefixCountsSum ==
    st_pc = "done" =>
        LET total == SumCounts(st_result.prefix_counts)
        IN  /\ total = Cardinality({l \in Range(st_order) : HasDot(l)})
            /\ total <= st_result.new_lines_count
            /\ (total = st_result.new_lines_count
                  <=> \A l \in Range(st_order) : HasDot(l))

\* two lines share a prefix and another line has no '.'
C6_Witness ==
    /\ st_pc = "done"
    /\ \E i \in 1..Len(st_result.prefix_counts) : st_result.prefix_counts[i].count >= 2
    /\ \E l \in Range(st_order) : ~HasDot(l)

\* the text a line gives as its value: what follows the first '.', or the
\* whole line when it has none
ValuePortion(line) == IF HasDot(line) THEN split(line, ".")[2] ELSE line

\* the line has an '=' in its value portion and nothing but blanks after it
EmptyValued(line) ==
    /\ HasEq(ValuePortion(line))
    /\ strip(split(ValuePortion(line), "=")[2]) = <<>>

\* C7: _process_lines returns for every set of lines (the operator is total:
\* the lookup of value_parts[1] that fails is caught), and each statistic
\* leaves out exactly the lines that lack its separator: the prefix counts the lines without
\* '.', the empty-value count the lines without '=', the item values the
\* "item" lines without '='.
C7_SkipsOnlyForMissingSeparator ==
    st_pc = "done" =>
        /\ SumCounts(st_result.prefix_counts)
             = Cardinality({l \in Range(st_order) : HasDot(l)})
        /\ st_result.empty_value_count
             = Cardinality({l \in Range(st_order) : EmptyValued(l)})
        /\ Len(st_result.item_values)
             = Cardinality({l \in Range(st_order) :
                              startswith(l, ITEM_DOT) /\ HasEq(ValuePortion(l))})

\* where the for loop first met a line with this prefix
FirstMet(order, prefix) ==
    CHOOSE i \in 1..Len(order) :
        /\ HasDot(order[i]) /\ split(order[i], ".")[1] = prefix
        /\ \A j \in 1..(i - 1) : ~(HasDot(order[j]) /\ split(order[j], ".")[1] = prefix)

\* C8: prefix_counts is in order of non-increasing count, equal counts in the
\* order the prefixes were first met; unique_prefixes is its number of keys
\* and max_prefix_len the length of its longest key, 0 without keys.
C8_SortedStable ==
    st_pc = "done" =>
        LET d == st_result.prefix_counts
        IN  /\ \A i, j \in 1..Len(d) : i < j =>
                  /\ d[i].count >= d[j].count
                  /\ d[i].prefix # d[j].prefix
                  /\ (d[i].count = d[j].count =>
                        FirstMet(st_order, d[i].prefix) < FirstMet(st_order, d[j].prefix))
            /\ st_result.unique_prefixes = Len(d)
            /\ \A i \in 1..Len(d) : Len(d[i].prefix) <= st_result.max_prefix_len
            /\ (d = <<>> => st_result.max_prefix_len = 0)
            /\ (d # <<>> => \E i \in 1..Len(d) : Len(d[i].prefix) = st_result.max_prefix_len)

\* a prefix met last has the highest count and two others tie
C8_Witness ==
    /\ st_pc = "done"
    /\ Len(st_result.prefix_counts) = 3
    /\ st_result.prefix_counts[1].count > st_result.prefix_counts[2].count
    /\ st_result.prefix_counts[2].count = st_result.prefix_counts[3].count
    /\ FirstMet(st_order, st_result.prefix_counts[1].prefix) > 2

\* C9: when one dump is newer than every other (the modification times
\* increase), a run compares its input with the dump of the run before it,
\* which is that dump and holds that run's whole snapshot, so it analyses
\* new_lines - prev_snapshot, and nothing when the input is unchanged.
C9_ComparesWithPrecedingRun ==
  ~mtime_tie =>
    /\ pc # "idle" => old_file_path = prev_timestamp
    /\ (pc = "read_old" /\ old_file_path # None) =>
           read_file(dumps[old_file_path]) = prev_snapshot
    /\ pc \in {"read_new", "analyze"} => old_lines = prev_snapshot
    /\ Analyzed =>
           /\ old_lines = prev_snapshot
           /\ Range(diff_order) = new_lines \ prev_snapshot
           /\ (new_lines = prev_snapshot => analysis_results.new_lines_count = 0)

\* third run, two dumps of different seconds on disk, the input unchanged
C9_Witness ==
    /\ runs = 3 /\ Analyzed /\ ~mtime_tie
    /\ old_file_path = 1 /\ dumps[0].exists /\ dumps[0].content # dumps[1].content
    /\ new_lines = prev_snapshot /\ new_lines # {}
    /\ analysis_results.new_lines_count = 0

\* the text write_file leaves after its first n lines
RECURSIVE Written(_, _)
Written(order, n) ==
    IF n = 0 THEN <<>> ELSE write_line(Written(order, n - 1), order[n])

\* C10: each file is written by its own task only, both tasks are joined
\* before the run reports success, when the log holds the log body in order
\* and the dump the lines of the new snapshot; the analysis starts with both
\* reads complete.
C10_WritersJoined ==
    /\ pc = "open_dump" => logs[timestamp] = [exists |-> TRUE, content |-> <<>>]
    /\ pc \in {"writing", "done"} =>
           /\ logs[timestamp].content = SubSeq(log_data, 1, log_pos)
           /\ dumps[timestamp].content = Written(new_order, dump_pos)
    /\ pc = "done" =>
           /\ logs[timestamp].content = log_data
           /\ \E now \in timestamp..MaxClock :
                 log_data = _format_log_data(analysis_results, new_order, old_file_path, now)
           /\ dumps[timestamp].content = Written(new_order, Len(new_order))
           /\ Range(new_order) = new_lines
           /\ read_file(dumps[timestamp]) = new_lines
    /\ pc \in {"analyze", "write_logs", "format", "open_log", "open_dump"} =>
           /\ new_lines = read_file(input)
           /\ new_failed = read_error(input)
           /\ old_lines = IF old_file_path = None THEN {}
                          ELSE read_file(dumps[old_file_path])

\* a run has reported success after writing a two-line dump
C10_Witness ==
    /\ pc = "done"
    /\ Cardinality(new_lines) = 2
    /\ old_file_path # None
    /\ Len(logs[timestamp].content) > 10

====
